---- MODULE Spec2Model ----
(***************************************************************************)
(* SafeLand flood-risk pipeline: the training script ml/train_model.py and *)
(* the prediction module ml/predict.py, which share two artifact files     *)
(* (the fitted classifier and the fitted label encoder).                   *)
(*                                                                         *)
(* The training script is modelled statement by statement; the two         *)
(* joblib.dump calls are each split into "open for writing" (which creates  *)
(* or truncates the file) and "write and close".  The prediction module is *)
(* modelled as its two module-level loads followed by calls of             *)
(* predict_risk, statement by statement, from one or more callers.         *)
(***************************************************************************)
EXTENDS Integers, Sequences, FiniteSets

(***************************************************************************)
(* Bounds of the model.                                                    *)
(***************************************************************************)
MaxRows == 3
MaxRuns == 2

(***************************************************************************)
(* Input domains.                                                          *)
(***************************************************************************)
\* Label strings of the dataset (train_model.py line 20), in the order in
\* which Python compares strings: "High" < "Low" < "Medium".
LabelOrder == <<"High", "Low", "Medium">>

Labels == {LabelOrder[i] : i \in 1..Len(LabelOrder)}

FeatureColumns == {"rainfall", "water_level", "elevation", "soil_moisture", "river_distance"}

\* The demonstration sample of predict.py (water level and river distance in
\* tenths) and a second, dry, sample.
DemoSample == [rainfall |-> 110, water_level |-> 38, elevation |-> 40,
               soil_moisture |-> 70, river_distance |-> 12]

DrySample == [rainfall |-> 5, water_level |-> 4, elevation |-> 300,
              soil_moisture |-> 20, river_distance |-> 80]

Samples == {DemoSample, DrySample}

\* Feature rows that occur in datasets.
DatasetSamples == {DemoSample}

\* The name of the label column of a dataset: "risk", or renamed.
TargetNames == {"risk", "risk_level"}

RowsUpTo(n) == UNION {[1..k -> [x : DatasetSamples, target : Labels]] : k \in 0..n}

\* The content of data/flood_data.csv when it exists.
Datasets == [columns : {FeatureColumns \cup {t} : t \in TargetNames}, rows : RowsUpTo(MaxRows)]

Callers == {1, 2}

(***************************************************************************)
(* State.                                                                  *)
(***************************************************************************)
VARIABLES
    modelFile,      \* ml/flood_risk_model.pkl
    encoderFile,    \* ml/label_encoder.pkl
    tpc,            \* statement the training script is at
    run,            \* number of training runs started
    failedAt,       \* statement at which the last failed run raised
    df, X, y,       \* train_model.py module-level names
    label_encoder, y_encoded, split, trained_model, y_pred,
    ppc,            \* statement the import of predict.py is at
    model, encoder, \* predict.py module-level names
    cpc, args, data, prediction, result,  \* per caller of predict_risk
    returned        \* labels returned so far, per sample

fileVars == <<modelFile, encoderFile>>
trainerVars == <<tpc, run, failedAt, df, X, y, label_encoder, y_encoded, split, trained_model, y_pred>>
loadVars == <<ppc, model, encoder>>
callVars == <<cpc, args, data, prediction, result, returned>>
vars == <<fileVars, trainerVars, loadVars, callVars>>

(***************************************************************************)
(* Values.                                                                 *)
(***************************************************************************)
\* A classifier: the classes it was fit on and its (majority) vote per sample.
NoModel == [classes |-> {}, vote |-> [s \in Samples |-> 0]]

\* A file: absent, opened for writing and not yet complete, or complete.
\* run is the training run that wrote it.
NoModelFile == [st |-> "missing", run |-> 0, obj |-> NoModel]

NoEncoderFile == [st |-> "missing", run |-> 0, obj |-> <<>>]

\* A module-level name of predict.py before its load: nothing bound.
NoLoadedModel == [run |-> 0, obj |-> NoModel]

NoLoadedEncoder == [run |-> 0, obj |-> <<>>]

NoFrame == [columns |-> {}, rows |-> <<>>]

NoSplit == [train |-> {}, test |-> {}]

NoData == [rainfall |-> 0, water_level |-> 0, elevation |-> 0, soil_moisture |-> 0, river_distance |-> 0]

NoPrediction == -1

NoResult == "none"

(***************************************************************************)
(* sklearn.preprocessing.LabelEncoder                                      *)
(***************************************************************************)
LabelIndex(l) == CHOOSE i \in 1..Len(LabelOrder) : LabelOrder[i] = l

LabelLess(a, b) == LabelIndex(a) < LabelIndex(b)

Range(s) == {s[i] : i \in 1..Len(s)}

RECURSIVE SortedSeq(_)
SortedSeq(S) ==
    IF S = {} THEN <<>>
    ELSE LET least == CHOOSE a \in S : \A b \in S \ {a} : LabelLess(a, b)
         IN  <<least>> \o SortedSeq(S \ {least})

\* LabelEncoder.fit: classes_ is the sorted sequence of the distinct labels.
FitClasses(labels) == SortedSeq(Range(labels))

\* Faulty variant of Encode: a hard-coded table over the whole label alphabet.
EncodeAlphabetRank(classes, l) == LabelIndex(l) - 1

\* LabelEncoder.transform of one label: its position in classes_, from 0.
Encode(classes, l) == Cardinality({i \in 1..Len(classes) : LabelLess(classes[i], l)})

Transform(classes, labels) == [i \in 1..Len(labels) |-> Encode(classes, labels[i])]

\* LabelEncoder.inverse_transform accepts exactly the codes 0..k-1.
KnownCode(classes, c) == c \in 0..(Len(classes) - 1)

Decode(classes, c) == classes[c + 1]

(***************************************************************************)
(* sklearn.model_selection.train_test_split, test_size=0.2                 *)
(***************************************************************************)
\* ceil(0.2 * n)
NTest(n) == (n + 4) \div 5

NTrain(n) == n - NTest(n)

\* The seeded shuffle is a fixed permutation of the rows that is not
\* modelled: any choice of NTest(n) held-out rows is allowed.
Splits(n) == {[train |-> (1..n) \ T, test |-> T] : T \in {S \in SUBSET (1..n) : Cardinality(S) = NTest(n)}}

(***************************************************************************)
(* sklearn.ensemble.RandomForestClassifier                                 *)
(***************************************************************************)
\* The forest votes among the classes it was fit on; which class wins for
\* a sample depends on the grown trees and is left open.
Fits(codes) == {[classes |-> codes, vote |-> v] : v \in [Samples -> codes]}

ModelPredict(m, s) == m.vote[s]

(***************************************************************************)
(* Initial state: no artifact on disk, neither program has run a statement. *)
(***************************************************************************)
TrainerLocalsCleared ==
    /\ df' = NoFrame
    /\ X' = <<>>
    /\ y' = <<>>
    /\ label_encoder' = <<>>
    /\ y_encoded' = <<>>
    /\ split' = NoSplit
    /\ trained_model' = NoModel
    /\ y_pred' = <<>>

Init ==
    /\ modelFile = NoModelFile
    /\ encoderFile = NoEncoderFile
    /\ tpc = "idle"
    /\ run = 0
    /\ failedAt = "none"
    /\ df = NoFrame
    /\ X = <<>>
    /\ y = <<>>
    /\ label_encoder = <<>>
    /\ y_encoded = <<>>
    /\ split = NoSplit
    /\ trained_model = NoModel
    /\ y_pred = <<>>
    /\ ppc = "load_model"
    /\ model = NoLoadedModel
    /\ encoder = NoLoadedEncoder
    /\ cpc = [c \in Callers |-> "idle"]
    /\ args = [c \in Callers |-> NoData]
    /\ data = [c \in Callers |-> NoData]
    /\ prediction = [c \in Callers |-> NoPrediction]
    /\ result = [c \in Callers |-> NoResult]
    /\ returned = [s \in Samples |-> {}]

(***************************************************************************)
(* ml/train_model.py                                                       *)
(***************************************************************************)
\* An uncaught exception at statement `at`: the interpreter exits and the
\* script's names are gone.  Nothing is caught, nothing is cleaned up.
Raise(at) ==
    /\ tpc' = "failed"
    /\ failedAt' = at
    /\ TrainerLocalsCleared
    /\ UNCHANGED run

\* A run of the script is started (the bound caps the number of runs).
StartTrainer ==
    /\ tpc \in {"idle", "done", "failed"}
    /\ run < MaxRuns
    /\ run' = run + 1
    /\ tpc' = "read_csv"
    /\ failedAt' = "none"
    /\ UNCHANGED <<df, X, y, label_encoder, y_encoded, split, trained_model, y_pred>>
    /\ UNCHANGED <<fileVars, loadVars, callVars>>

\* line 14: df = pd.read_csv(DATA_PATH)
ReadCsv ==
    /\ tpc = "read_csv"
    /\ \/ \E file \in Datasets :
            /\ df' = file
            /\ tpc' = "split_columns"
            /\ UNCHANGED <<run, failedAt, X, y, label_encoder, y_encoded, split, trained_model, y_pred>>
       \/ Raise("read_csv")     \* the dataset file does not exist
    /\ UNCHANGED <<fileVars, loadVars, callVars>>

\* Faulty variant of SplitColumns: the label column is taken whatever its name.
SplitColumnsLenient ==
    /\ tpc = "split_columns"
    /\ X' = [i \in 1..Len(df.rows) |-> df.rows[i].x]
    /\ y' = [i \in 1..Len(df.rows) |-> df.rows[i].target]
    /\ tpc' = "fit_encoder"
    /\ UNCHANGED <<run, failedAt, df, label_encoder, y_encoded, split, trained_model, y_pred>>
    /\ UNCHANGED <<fileVars, loadVars, callVars>>

\* lines 17-18: X = df.drop("risk", axis=1); y = df["risk"]
SplitColumns ==
    /\ tpc = "split_columns"
    /\ IF "risk" \in df.columns
       THEN /\ X' = [i \in 1..Len(df.rows) |-> df.rows[i].x]
            /\ y' = [i \in 1..Len(df.rows) |-> df.rows[i].target]
            /\ tpc' = "fit_encoder"
            /\ UNCHANGED <<run, failedAt, df, label_encoder, y_encoded, split, trained_model, y_pred>>
       ELSE Raise("split_columns")    \* KeyError
    /\ UNCHANGED <<fileVars, loadVars, callVars>>

\* Faulty variant of FitEncoder: the encoder is fit on the leading 80% of the rows.
FitEncoderOnHead ==
    /\ tpc = "fit_encoder"
    /\ label_encoder' = FitClasses(SubSeq(y, 1, NTrain(Len(y))))
    /\ y_encoded' = Transform(FitClasses(SubSeq(y, 1, NTrain(Len(y)))), y)
    /\ tpc' = "split_rows"
    /\ UNCHANGED <<run, failedAt, df, X, y, split, trained_model, y_pred>>
    /\ UNCHANGED <<fileVars, loadVars, callVars>>

\* lines 21-22: y_encoded = label_encoder.fit_transform(y)
FitEncoder ==
    /\ tpc = "fit_encoder"
    /\ label_encoder' = FitClasses(y)
    /\ y_encoded' = Transform(FitClasses(y), y)
    /\ tpc' = "split_rows"
    /\ UNCHANGED <<run, failedAt, df, X, y, split, trained_model, y_pred>>
    /\ UNCHANGED <<fileVars, loadVars, callVars>>

\* lines 25-27: train_test_split(X, y_encoded, test_size=0.2, random_state=42)
SplitRows ==
    /\ tpc = "split_rows"
    /\ IF NTrain(Len(y_encoded)) >= 1
       THEN /\ split' \in Splits(Len(y_encoded))
            /\ tpc' = "fit_model"
            /\ UNCHANGED <<run, failedAt, df, X, y, label_encoder, y_encoded, trained_model, y_pred>>
       ELSE Raise("split_rows")       \* ValueError: the train set would be empty
    /\ UNCHANGED <<fileVars, loadVars, callVars>>

\* y_train, y_test
YTrain == {y_encoded[i] : i \in split.train}

YTest == {y_encoded[i] : i \in split.test}

\* lines 30-34: model = RandomForestClassifier(...); model.fit(X_train, y_train)
FitModel ==
    /\ tpc = "fit_model"
    /\ trained_model' \in Fits(YTrain)
    /\ tpc' = "evaluate"
    /\ UNCHANGED <<run, failedAt, df, X, y, label_encoder, y_encoded, split, y_pred>>
    /\ UNCHANGED <<fileVars, loadVars, callVars>>

\* lines 37-38: y_pred = model.predict(X_test); the report is printed
Evaluate ==
    /\ tpc = "evaluate"
    /\ y_pred' = [i \in split.test |-> ModelPredict(trained_model, X[i])]
    /\ tpc' = "dump_model"
    /\ UNCHANGED <<run, failedAt, df, X, y, label_encoder, y_encoded, split, trained_model>>
    /\ UNCHANGED <<fileVars, loadVars, callVars>>

\* line 41, joblib.dump(model, MODEL_PATH): the file is opened for writing,
\* which creates or truncates it, unless the path is unwritable.
DumpModelOpen ==
    /\ tpc = "dump_model"
    /\ \/ /\ modelFile' = [st |-> "partial", run |-> run, obj |-> NoModel]
          /\ tpc' = "dump_model_write"
          /\ UNCHANGED <<run, failedAt, df, X, y, label_encoder, y_encoded, split, trained_model, y_pred>>
       \/ /\ Raise("dump_model")
          /\ UNCHANGED modelFile
    /\ UNCHANGED <<encoderFile, loadVars, callVars>>

\* line 41, continued: the pickle is written and the file closed, unless the
\* write fails half way (disk full), which leaves the truncated file.
DumpModelWrite ==
    /\ tpc = "dump_model_write"
    /\ \/ /\ modelFile' = [st |-> "complete", run |-> run, obj |-> trained_model]
          /\ tpc' = "dump_encoder"
          /\ UNCHANGED <<run, failedAt, df, X, y, label_encoder, y_encoded, split, trained_model, y_pred>>
       \/ /\ Raise("dump_model")
          /\ UNCHANGED modelFile
    /\ UNCHANGED <<encoderFile, loadVars, callVars>>

\* line 42, joblib.dump(label_encoder, ...): as line 41.
DumpEncoderOpen ==
    /\ tpc = "dump_encoder"
    /\ \/ /\ encoderFile' = [st |-> "partial", run |-> run, obj |-> <<>>]
          /\ tpc' = "dump_encoder_write"
          /\ UNCHANGED <<run, failedAt, df, X, y, label_encoder, y_encoded, split, trained_model, y_pred>>
       \/ /\ Raise("dump_encoder")
          /\ UNCHANGED encoderFile
    /\ UNCHANGED <<modelFile, loadVars, callVars>>

DumpEncoderWrite ==
    /\ tpc = "dump_encoder_write"
    /\ \/ /\ encoderFile' = [st |-> "complete", run |-> run, obj |-> label_encoder]
          /\ tpc' = "report_saved"
          /\ UNCHANGED <<run, failedAt, df, X, y, label_encoder, y_encoded, split, trained_model, y_pred>>
       \/ /\ Raise("dump_encoder")
          /\ UNCHANGED encoderFile
    /\ UNCHANGED <<modelFile, loadVars, callVars>>

\* line 44: the success message is printed and the script ends.
ReportSaved ==
    /\ tpc = "report_saved"
    /\ tpc' = "done"
    /\ TrainerLocalsCleared
    /\ UNCHANGED <<run, failedAt>>
    /\ UNCHANGED <<fileVars, loadVars, callVars>>

TrainerNext ==
    \/ StartTrainer
    \/ ReadCsv
    \/ SplitColumns
    \/ FitEncoder
    \/ SplitRows
    \/ FitModel
    \/ Evaluate
    \/ DumpModelOpen
    \/ DumpModelWrite
    \/ DumpEncoderOpen
    \/ DumpEncoderWrite
    \/ ReportSaved

(***************************************************************************)
(* ml/predict.py                                                           *)
(***************************************************************************)
\* Faulty variant of Loadable: a failed load is swallowed and a default object used.
LoadableAnything(file) == TRUE

\* joblib.load of a path: the unpickled object of a complete file; a missing
\* file (FileNotFoundError) or a truncated one (EOFError) raises.
Loadable(file) == file.st = "complete"

\* line 8: model = joblib.load(MODEL_PATH)
LoadModel ==
    /\ ppc = "load_model"
    /\ IF Loadable(modelFile)
       THEN /\ model' = [run |-> modelFile.run, obj |-> modelFile.obj]
            /\ ppc' = "load_encoder"
       ELSE /\ ppc' = "failed"
            /\ UNCHANGED model
    /\ UNCHANGED <<encoder, fileVars, trainerVars, callVars>>

\* line 9: encoder = joblib.load(ENCODER_PATH)
LoadEncoder ==
    /\ ppc = "load_encoder"
    /\ IF Loadable(encoderFile)
       THEN /\ encoder' = [run |-> encoderFile.run, obj |-> encoderFile.obj]
            /\ ppc' = "ready"
       ELSE /\ ppc' = "failed"
            /\ UNCHANGED encoder
    /\ UNCHANGED <<model, fileVars, trainerVars, callVars>>

LoadNext == LoadModel \/ LoadEncoder

\* lines 12-18: the one-row frame of the five arguments.
Frame(rainfall, water_level, elevation, soil_moisture, river_distance) ==
    [rainfall |-> rainfall, water_level |-> water_level, elevation |-> elevation,
     soil_moisture |-> soil_moisture, river_distance |-> river_distance]

\* Faulty variant of BuildFrame: the frame is a module-level name shared by all callers.
BuildFrameShared(c, rainfall, water_level, elevation, soil_moisture, river_distance) ==
    /\ ppc = "ready"
    /\ cpc[c] = "idle"
    /\ args' = [args EXCEPT ![c] = Frame(rainfall, water_level, elevation, soil_moisture, river_distance)]
    /\ data' = [d \in Callers |-> Frame(rainfall, water_level, elevation, soil_moisture, river_distance)]
    /\ result' = [result EXCEPT ![c] = NoResult]
    /\ cpc' = [cpc EXCEPT ![c] = "predict"]
    /\ UNCHANGED <<prediction, returned, fileVars, trainerVars, loadVars>>

\* lines 11-18: predict_risk is called and builds its one-row frame.
\* The function exists only once the module has been imported.
BuildFrame(c, rainfall, water_level, elevation, soil_moisture, river_distance) ==
    /\ ppc = "ready"
    /\ cpc[c] = "idle"
    /\ args' = [args EXCEPT ![c] = Frame(rainfall, water_level, elevation, soil_moisture, river_distance)]
    /\ data' = [data EXCEPT ![c] = Frame(rainfall, water_level, elevation, soil_moisture, river_distance)]
    /\ result' = [result EXCEPT ![c] = NoResult]
    /\ cpc' = [cpc EXCEPT ![c] = "predict"]
    /\ UNCHANGED <<prediction, returned, fileVars, trainerVars, loadVars>>

\* Faulty variant of Predict: the model file is loaded again at every call.
PredictHotReload(c) ==
    /\ cpc[c] = "predict"
    /\ model' = IF Loadable(modelFile) THEN [run |-> modelFile.run, obj |-> modelFile.obj] ELSE model
    /\ prediction' = [prediction EXCEPT ![c] = ModelPredict(model'.obj, data[c])]
    /\ cpc' = [cpc EXCEPT ![c] = "decode"]
    /\ UNCHANGED <<ppc, encoder, args, data, result, returned, fileVars, trainerVars>>

\* Faulty variant of Predict: ties between trees are broken at random at each call.
PredictAnyClass(c) ==
    /\ cpc[c] = "predict"
    /\ \E k \in model.obj.classes : prediction' = [prediction EXCEPT ![c] = k]
    /\ cpc' = [cpc EXCEPT ![c] = "decode"]
    /\ UNCHANGED <<args, data, result, returned, fileVars, trainerVars, loadVars>>

\* line 20: prediction = model.predict(data)
Predict(c) ==
    /\ cpc[c] = "predict"
    /\ prediction' = [prediction EXCEPT ![c] = ModelPredict(model.obj, data[c])]
    /\ cpc' = [cpc EXCEPT ![c] = "decode"]
    /\ UNCHANGED <<args, data, result, returned, fileVars, trainerVars, loadVars>>

\* lines 21-23: risk_label = encoder.inverse_transform(prediction);
\* return risk_label[0].  inverse_transform raises ValueError on a code
\* outside 0..k-1.  The frame's locals end with the call.
InverseTransform(c) ==
    /\ cpc[c] = "decode"
    /\ IF KnownCode(encoder.obj, prediction[c])
       THEN /\ result' = [result EXCEPT ![c] = Decode(encoder.obj, prediction[c])]
            /\ returned' = [returned EXCEPT ![args[c]] = @ \cup {Decode(encoder.obj, prediction[c])}]
       ELSE /\ result' = [result EXCEPT ![c] = "ValueError"]
            /\ UNCHANGED returned
    /\ args' = [args EXCEPT ![c] = NoData]
    /\ data' = [data EXCEPT ![c] = NoData]
    /\ prediction' = [prediction EXCEPT ![c] = NoPrediction]
    /\ cpc' = [cpc EXCEPT ![c] = "idle"]
    /\ UNCHANGED <<fileVars, trainerVars, loadVars>>

PredictRisk(c) ==
    \/ \E s \in Samples :
           BuildFrame(c, s.rainfall, s.water_level, s.elevation, s.soil_moisture, s.river_distance)
    \/ Predict(c)
    \/ InverseTransform(c)

(***************************************************************************)
(* Specifications.                                                         *)
(***************************************************************************)
\* The training script alone.
SpecTrain == Init /\ [][TrainerNext]_vars

\* What a completed training run persists, for every dataset it can train on.
OutcomesOf(rows) ==
    LET labels == [i \in 1..Len(rows) |-> rows[i].target]
        codes == Transform(FitClasses(labels), labels)
    IN  UNION {{[model |-> m, encoder |-> FitClasses(labels)] : m \in Fits({codes[i] : i \in sp.train})}
               : sp \in Splits(Len(rows))}

TrainingOutcomes == UNION {OutcomesOf(rows) : rows \in {r \in RowsUpTo(MaxRows) : NTrain(Len(r)) >= 1}}

ModelFileOf(r, m) == [st |-> "complete", run |-> r, obj |-> m]

EncoderFileOf(r, e) == [st |-> "complete", run |-> r, obj |-> e]

\* The disk and the exit status that finished training runs leave behind:
\* no run yet; a first run that succeeded; a first run that failed in one of
\* its two dumps; a second run that wrote its model and failed to open the
\* encoder file, which keeps the first run's encoder.
DiskStates ==
    {[tpc |-> "idle", run |-> 0, failedAt |-> "none", modelFile |-> NoModelFile, encoderFile |-> NoEncoderFile]}
    \cup {[tpc |-> "done", run |-> 1, failedAt |-> "none",
           modelFile |-> ModelFileOf(1, o.model), encoderFile |-> EncoderFileOf(1, o.encoder)]
          : o \in TrainingOutcomes}
    \cup {[tpc |-> "failed", run |-> 1, failedAt |-> "dump_model",
           modelFile |-> f, encoderFile |-> NoEncoderFile]
          : f \in {NoModelFile, [st |-> "partial", run |-> 1, obj |-> NoModel]}}
    \cup {[tpc |-> "failed", run |-> 1, failedAt |-> "dump_encoder",
           modelFile |-> ModelFileOf(1, o.model), encoderFile |-> f]
          : o \in TrainingOutcomes, f \in {NoEncoderFile, [st |-> "partial", run |-> 1, obj |-> <<>>]}}
    \cup {[tpc |-> "failed", run |-> 2, failedAt |-> "dump_encoder",
           modelFile |-> ModelFileOf(2, o2.model), encoderFile |-> EncoderFileOf(1, o1.encoder)]
          : o1 \in TrainingOutcomes, o2 \in TrainingOutcomes}

\* A prediction process is started after training runs have ended.
InitPredict ==
    \E disk \in DiskStates :
        /\ modelFile = disk.modelFile
        /\ encoderFile = disk.encoderFile
        /\ tpc = disk.tpc
        /\ run = disk.run
        /\ failedAt = disk.failedAt
        /\ df = NoFrame
        /\ X = <<>>
        /\ y = <<>>
        /\ label_encoder = <<>>
        /\ y_encoded = <<>>
        /\ split = NoSplit
        /\ trained_model = NoModel
        /\ y_pred = <<>>
        /\ ppc = "load_model"
        /\ model = NoLoadedModel
        /\ encoder = NoLoadedEncoder
        /\ cpc = [c \in Callers |-> "idle"]
        /\ args = [c \in Callers |-> NoData]
        /\ data = [c \in Callers |-> NoData]
        /\ prediction = [c \in Callers |-> NoPrediction]
        /\ result = [c \in Callers |-> NoResult]
        /\ returned = [s \in Samples |-> {}]

NextPredict ==
    \/ LoadNext
    \/ \E c \in Callers : PredictRisk(c)

\* One prediction process, its callers of predict_risk running concurrently.
SpecPredict == InitPredict /\ [][NextPredict]_vars

\* Training runs interleaved with one prediction process whose single
\* caller calls predict_risk again and again.
Next ==
    \/ TrainerNext
    \/ LoadNext
    \/ PredictRisk(1)

Spec == Init /\ [][Next]_vars

(***************************************************************************)
(* Properties.                                                             *)
(***************************************************************************)
\* The encoder of the running script has been fit.
EncoderFitted ==
    tpc \in {"split_rows", "fit_model", "evaluate", "dump_model", "dump_model_write",
             "dump_encoder", "dump_encoder_write", "report_saved"}

RowsSplit ==
    tpc \in {"fit_model", "evaluate", "dump_model", "dump_model_write",
             "dump_encoder", "dump_encoder_write", "report_saved"}

ModelFitted ==
    tpc \in {"evaluate", "dump_model", "dump_model_write",
             "dump_encoder", "dump_encoder_write", "report_saved"}

NoLabelReturned ==
    /\ \A c \in Callers : cpc[c] = "idle" /\ result[c] = NoResult
    /\ \A s \in Samples : returned[s] = {}

\* What predict_risk gives for sample s when it runs alone on the loaded pair.
RunAlone(s) ==
    IF KnownCode(encoder.obj, ModelPredict(model.obj, s))
    THEN Decode(encoder.obj, ModelPredict(model.obj, s))
    ELSE "ValueError"

\* C1: a training run that ended with an error has neither created nor
\* overwritten the model file or the encoder file.
C1_FailedRunWroteNothing ==
    tpc = "failed" => (modelFile.run # run /\ encoderFile.run # run)

\* C2: the model and the encoder a prediction process holds were written by
\* the same training run.
C2_LoadedPairFromOneRun ==
    ppc = "ready" => model.run = encoder.run

\* C3: every label predict_risk returns is one the loaded encoder was fit on,
\* and the loaded model never emits a code the loaded encoder cannot decode.
C3_ClosedOutputSet ==
    \A c \in Callers :
        /\ result[c] \notin {NoResult, "ValueError"} => result[c] \in Range(encoder.obj)
        /\ cpc[c] = "decode" => KnownCode(encoder.obj, prediction[c])

\* C4: the model and the encoder are bound once, before any call of
\* predict_risk, and once the process is ready no step of any training run
\* or call changes them.
C4_LoadedOnce ==
    [][/\ ppc = "ready" => (ppc' = "ready" /\ model' = model /\ encoder' = encoder)
       /\ (model' # model \/ encoder' # encoder) => (ppc # "ready" /\ NoLabelReturned)]_vars

\* C4 witness: both files have been overwritten by a second run, and a call
\* is still being answered from the pair loaded from the first run.
C4_Witness ==
    /\ ppc = "ready"
    /\ model.run = 1 /\ encoder.run = 1
    /\ Loadable(modelFile) /\ modelFile.run = 2 /\ modelFile.obj # model.obj
    /\ Loadable(encoderFile) /\ encoderFile.run = 2 /\ encoderFile.obj # encoder.obj
    /\ returned[DemoSample] # {}
    /\ cpc[1] = "decode"

\* C5: a load that finds its artifact file missing (or truncated) ends the
\* import with an error; a failed import stays failed; and in a process whose
\* import has not completed no call of predict_risk runs or returns a label.
C5_NoLabelWithoutArtifacts ==
    [][/\ (ppc = "load_model" /\ modelFile.st # "complete") => ppc' \in {ppc, "failed"}
       /\ (ppc = "load_encoder" /\ encoderFile.st # "complete") => ppc' \in {ppc, "failed"}
       /\ ppc = "failed" => ppc' = "failed"
       /\ (modelFile'.st # "complete" \/ encoderFile'.st # "complete") => ppc' # "ready"
       /\ ppc' # "ready" => NoLabelReturned']_vars

\* C5 witness: the import failed at the encoder load, the model file being
\* present and the encoder file missing.
C5_Witness ==
    /\ ppc = "failed"
    /\ modelFile.st = "complete"
    /\ encoderFile.st = "missing"
    /\ model.obj # NoModel

\* C6: a run on a dataset without a risk column raises at the column split,
\* with the encoder not fit, the rows not split, the model not fit and no
\* artifact file touched by the run; no later statement sees such a dataset.
C6_SchemaEnforced ==
    [][/\ (tpc = "split_columns" /\ "risk" \notin df.columns) =>
              /\ tpc' = "failed" /\ failedAt' = "split_columns"
              /\ label_encoder = <<>> /\ split = NoSplit /\ trained_model = NoModel
              /\ label_encoder' = <<>> /\ split' = NoSplit /\ trained_model' = NoModel
              /\ modelFile' = modelFile /\ encoderFile' = encoderFile
              /\ modelFile.run # run /\ encoderFile.run # run
       /\ EncoderFitted' => "risk" \in df'.columns]_vars

\* C6 witness: a second run failed at the column split and the first run's
\* artifacts are still in place.
C6_Witness ==
    /\ tpc = "failed" /\ failedAt = "split_columns"
    /\ run = 2
    /\ Loadable(modelFile) /\ modelFile.run = 1
    /\ Loadable(encoderFile) /\ encoderFile.run = 1

\* C7: in one process, all calls of predict_risk with the same sample that
\* returned have returned the same label.
C7_Deterministic ==
    \A s \in Samples : Cardinality(returned[s]) <= 1

\* C7 witness: both samples have been answered, with different labels, and a
\* further call for an already answered sample is about to return.
C7_Witness ==
    /\ returned[DemoSample] # {} /\ returned[DrySample] # {}
    /\ returned[DemoSample] # returned[DrySample]
    /\ cpc[1] = "decode" /\ args[1] = DemoSample
    /\ result[2] \in Labels

\* C8: once the encoder is fit, the codes of the label column are exactly
\* 0..k-1 for its k distinct labels, distinct labels have distinct codes, and
\* decoding the code of each label gives the label back.
C8_EncoderRoundTrip ==
    EncoderFitted =>
        /\ Range(y_encoded) = 0..(Cardinality(Range(y)) - 1)
        /\ \A i, j \in 1..Len(y) : y_encoded[i] = y_encoded[j] => y[i] = y[j]
        /\ \A i \in 1..Len(y) : /\ y_encoded[i] = Encode(label_encoder, y[i])
                                /\ Decode(label_encoder, y_encoded[i]) = y[i]

\* C8 witness: a fitted column of three rows with two distinct labels, the
\* alphabetically first label absent.
C8_Witness ==
    /\ EncoderFitted
    /\ Len(y) = 3
    /\ Range(y) = {"Low", "Medium"}

\* C9: no step of a predict_risk call changes the loaded model or encoder,
\* and every call, however interleaved with other callers' calls, ends with
\* the result it has when run alone on its own arguments.
C9_PredictReadOnly ==
    [][\A c \in Callers :
           /\ cpc'[c] # cpc[c] => (model' = model /\ encoder' = encoder)
           /\ (cpc[c] = "decode" /\ cpc'[c] = "idle") => result'[c] = RunAlone(args[c])]_vars

\* C9 witness: two calls are in flight with different arguments for which
\* the loaded model votes differently.
C9_Witness ==
    /\ cpc[1] = "decode" /\ cpc[2] = "predict"
    /\ args[1] # args[2]
    /\ ModelPredict(model.obj, args[1]) # ModelPredict(model.obj, args[2])
    /\ result[2] = NoResult

\* C10: the encoder is fit on the whole label column before the rows are
\* split; it knows the code of every label of the training subset and of the
\* held-out subset, and of every class the model was fit on.
C10_EncoderCoversAllLabels ==
    /\ tpc = "split_rows" => (split = NoSplit /\ Range(label_encoder) = Range(y))
    /\ RowsSplit =>
           /\ Range(y) \subseteq Range(label_encoder)
           /\ \A k \in YTrain \cup YTest : KnownCode(label_encoder, k)
    /\ ModelFitted =>
           /\ trained_model.classes = YTrain
           /\ \A k \in trained_model.classes : KnownCode(label_encoder, k)
    /\ tpc = "report_saved" =>
           \A k \in modelFile.obj.classes : KnownCode(encoderFile.obj, k)

\* C10 witness: both artifacts are persisted by a run whose held-out subset
\* has a label that its training subset lacks.
C10_Witness ==
    /\ tpc = "report_saved"
    /\ ~(YTest \subseteq YTrain)
    /\ modelFile.run = run /\ encoderFile.run = run

====
